---- MODULE Spec2Model ----
(***************************************************************************)
(* Trakt -> Douban rating sync plugin (plugins/traktratingssync).          *)
(*                                                                         *)
(* The model follows __init__.py and douban_helper.py:                     *)
(*   - _trakt_rating_to_douban, the rating converter;                      *)
(*   - _fetch_trakt_ratings_movies, _get_douban_id_by_tmdb, _sync_one and  *)
(*     sync_trakt_ratings_to_douban of TraktRatingsSync;                   *)
(*   - DoubanHelper.__init__/set_ck and DoubanHelper.set_watching_status.  *)
(*                                                                         *)
(* Python values are encoded as follows.  A falsy id (None, 0, "") is 0    *)
(* for the integer ids and the year, and "" for the string ids; only the   *)
(* truthiness of such a value is ever tested by the code.  A dict is a     *)
(* record; an item that is not a dict is the record [dict |-> FALSE].  An  *)
(* item without a numeric rating is a record without the field "rating".   *)
(***************************************************************************)
EXTENDS Integers, Sequences, FiniteSets, TLC

VARIABLES
    config,   \* the plugin's configuration fields (self._enable, ...)
    store,    \* the host's persisted plugin data: store.synced, store.wait
    run,      \* run[r]: the frame of invocation r of sync_trakt_ratings_to_douban
    conv,     \* one call of the rating conversion: its input and its result
    call      \* one call of another function alone: its name, arguments and result

vars == <<config, store, run, conv, call>>

(***************************************************************************)
(* Bounds of the model.                                                    *)
(***************************************************************************)
MaxItems == 2      \* longest source list the rating service returns
RatingLow == 30    \* raw ratings range over -RatingLow .. RatingHigh
RatingHigh == 40
MaxOverlapItems == 1   \* longest source list of two runs that overlap

(***************************************************************************)
(* Small helpers over Python dicts, modelled as functions.                 *)
(***************************************************************************)
EmptyDict == << >>

Has(d, k) == k \in DOMAIN d

Put(d, k, v) == [x \in (DOMAIN d) \cup {k} |-> IF x = k THEN v ELSE d[x]]

Del(d, k) == [x \in (DOMAIN d) \ {k} |-> d[x]]

Max2(a, b) == IF a >= b THEN a ELSE b

Min2(a, b) == IF a <= b THEN a ELSE b

(***************************************************************************)
(* Python 3 round(n / 2) for an integer n: round half to even.             *)
(***************************************************************************)
PyRoundHalf(n) ==
    LET q == n \div 2
    IN  IF n % 2 = 0 THEN q
        ELSE IF q % 2 = 0 THEN q ELSE q + 1

\* The converter without the upper clamp min(5, .).
NoUpperClamp(trakt_rating) ==
    IF trakt_rating <= 0 THEN 1 ELSE Max2(1, PyRoundHalf(trakt_rating))

\* _trakt_rating_to_douban
TraktRatingToDouban(trakt_rating) ==
    IF trakt_rating <= 0
    THEN 1
    ELSE Max2(1, Min2(5, PyRoundHalf(trakt_rating)))

\* _sync_one, lines 135-138: a rating that is absent or not a number becomes 0.
TraktRating(item) ==
    IF Has(item, "rating") THEN item.rating ELSE 0

(***************************************************************************)
(* The rating service's list.  An item is                                  *)
(*   {rating, movie: {title, year, ids: {trakt, slug, imdb, tmdb}}}.       *)
(***************************************************************************)
Item(rating, title, year, trakt, slug, imdb, tmdb) ==
    [dict |-> TRUE, rating |-> rating,
     movie |-> [title |-> title, year |-> year,
                ids |-> [trakt |-> trakt, slug |-> slug, imdb |-> imdb, tmdb |-> tmdb]]]

Unrated(title, year, trakt, slug, imdb, tmdb) ==
    [dict |-> TRUE,
     movie |-> [title |-> title, year |-> year,
                ids |-> [trakt |-> trakt, slug |-> slug, imdb |-> imdb, tmdb |-> tmdb]]]

NotADict == [dict |-> FALSE]

\* The movies the rating service knows in this model: movie X with two ratings,
\* X without catalogue ids, and an unrated movie Y that has only a title and an
\* imdb id.
Items ==
    { Item(8, "X", 2020, 100, "x-2020", "tt1", 1),
      Item(6, "X", 2020, 100, "x-2020", "tt1", 1),
      Item(8, "X", 2020, 100, "x-2020", "", 0),
      Unrated("Y", 0, 0, "", "tt2", 0),
      NotADict }

\* lines 133-134: a missing movie or ids dict reads as an empty dict.
MovieOf(item) ==
    IF Has(item, "movie")
    THEN item.movie
    ELSE [title |-> "unknown", year |-> 0,
          ids |-> [trakt |-> 0, slug |-> "", imdb |-> "", tmdb |-> 0]]

\* str(year) inside the f-string of line 151; 0 encodes None.
YearStr(year) == IF year = 0 THEN "None" ELSE ToString(year)

\* line 142: trakt_id = ids.get("trakt") or movie.get("trakt_id")
TraktId(movie) ==
    IF movie.ids.trakt # 0 THEN movie.ids.trakt
    ELSE IF Has(movie, "trakt_id") THEN movie.trakt_id
    ELSE 0

\* A key that prefers the slug to the trakt id.
KeyOfSlugFirst(item) ==
    LET movie == MovieOf(item)
        trakt_id == TraktId(movie)
    IN  IF movie.ids.slug # "" THEN movie.ids.slug
        ELSE IF trakt_id # 0 THEN ToString(trakt_id)
        ELSE movie.title \o "_" \o YearStr(movie.year)

\* line 151: key = str(trakt_id) if trakt_id else slug or f"{title}_{year}"
KeyOf(item) ==
    LET movie == MovieOf(item)
        ids == movie.ids
        trakt_id == TraktId(movie)
    IN  IF trakt_id # 0 THEN ToString(trakt_id)
        ELSE IF ids.slug # "" THEN ids.slug
        ELSE movie.title \o "_" \o YearStr(movie.year)

\* The ratings endpoint lists every rated movie once: the dict items of a list
\* have pairwise different keys.
DistinctKeys(list) ==
    \A i, j \in 1..Len(list) :
        (i # j /\ list[i].dict /\ list[j].dict) => KeyOf(list[i]) # KeyOf(list[j])

SourceLists ==
    { l \in UNION { [1..n -> Items] : n \in 0..MaxItems } : DistinctKeys(l) }

(***************************************************************************)
(* _fetch_trakt_ratings_movies.  A response of the rating service is       *)
(* nothing at all (get_res returned None), an exception, or an HTTP status *)
(* with a body that is a JSON array (data), another JSON value, or no JSON.*)
(***************************************************************************)
FetchResponses ==
    [outcome : {"none", "error"}, status : {0}, body : {"invalid"}, data : {<< >>}]
    \cup
    [outcome : {"response"}, status : {200, 204, 403, 404, 429, 500},
     body : {"array", "object", "invalid"}, data : SourceLists]

\* The fetch without the status test: whatever array the body holds is returned.
FetchIgnoringStatus(cfg, resp) ==
    IF resp.outcome = "response" /\ resp.body = "array" THEN resp.data ELSE << >>

FetchTraktRatingsMovies(cfg, resp) ==
    IF cfg.trakt_username = "" \/ cfg.trakt_client_id = "" THEN << >>
    ELSE IF resp.outcome = "error" THEN << >>            \* except Exception
    ELSE IF resp.outcome = "none" \/ resp.status >= 400  \* "if not resp"
         THEN << >>
    ELSE IF resp.status = 200
         THEN IF resp.body = "invalid" THEN << >>        \* resp.json() raises
              ELSE IF resp.body # "array" THEN << >>
              ELSE resp.data
    ELSE << >>

\* A truncation that keeps the last items of the list instead of the first.
TruncateLast(items, max_sync_count) ==
    IF max_sync_count > 0 /\ Len(items) > max_sync_count
    THEN SubSeq(items, Len(items) - max_sync_count + 1, Len(items))
    ELSE items

\* lines 228-230
Truncate(items, max_sync_count) ==
    IF max_sync_count > 0
    THEN SubSeq(items, 1, Min2(max_sync_count, Len(items)))
    ELSE items

(***************************************************************************)
(* _get_douban_id_by_tmdb.  s1 and s2 are what the two MediaChain calls do *)
(* when they are made: "raise", "" (no match, or a match without id) or    *)
(* the douban id.  The result "" is None.                                  *)
(***************************************************************************)
TargetIds == {"555"}

StageOutcomes == {"raise", ""} \cup TargetIds

\* The resolver with one try around both stages: an exception of the first
\* MediaChain call ends the resolution.
GetDoubanIdOneTry(tmdb_id, imdb_id, title, s1, s2) ==
    IF tmdb_id # 0 /\ s1 = "raise" THEN ""
    ELSE IF tmdb_id # 0 /\ s1 # "" THEN s1
    ELSE IF (title # "" \/ imdb_id # "") /\ s2 # "raise" THEN s2
    ELSE ""

GetDoubanIdByTmdb(tmdb_id, imdb_id, title, s1, s2) ==
    LET stage1 == IF tmdb_id # 0 /\ s1 # "raise" THEN s1 ELSE ""
        stage2 == IF (title # "" \/ imdb_id # "") /\ s2 # "raise" THEN s2 ELSE ""
    IN  IF stage1 # "" THEN stage1 ELSE stage2

\* The MediaChain calls made: 1 is async_get_doubaninfo_by_tmdbid (line 107),
\* 2 is async_match_doubaninfo (line 116), not reached after the return of
\* line 111.
StagesCalled(tmdb_id, imdb_id, title, s1, s2) ==
    (IF tmdb_id # 0 THEN {1} ELSE {})
    \cup
    (IF /\ ~(tmdb_id # 0 /\ s1 \notin {"raise", ""})
        /\ (title # "" \/ imdb_id # "")
     THEN {2} ELSE {})

\* Whether a MediaChain call that was made raised (both are caught, lines 112, 124).
StageRaised(tmdb_id, imdb_id, title, s1, s2) ==
    \/ tmdb_id # 0 /\ s1 = "raise"
    \/ /\ ~(tmdb_id # 0 /\ s1 \notin {"raise", ""})
       /\ (title # "" \/ imdb_id # "")
       /\ s2 = "raise"

(***************************************************************************)
(* DoubanHelper.                                                           *)
(***************************************************************************)
\* lines 24-35: the cookie string the helper gets from the configuration or
\* from cookiecloud: none, or the cookies of a session.
CookieStrings == {"", "bid=b; dbcl2=d"}

\* What the GET of set_ck does: it raises, or the response has no Set-Cookie
\* header, or one whose first cookie is ck="deleted", the ck of the session,
\* or another cookie (bid).
HomePages == {"error", "no_set_cookie", "deleted", "token", "other_cookie"}

\* douban gives a ck only to the cookies of a session.
HomePagesFor(cookies) ==
    IF cookies = "" THEN HomePages \ {"token", "deleted"} ELSE HomePages

\* The ck values douban takes for the token of the session.
SessionTokens == {"ck1"}

\* __init__ and set_ck: the ck of the new helper ("" when there is none), or
\* "raise" when the constructor raises.  set_ck takes the value of the first
\* cookie of the Set-Cookie header for the ck, whatever its name.
NewDoubanHelper(home) ==
    CASE home = "error" -> "raise"
      [] home = "no_set_cookie" -> ""
      [] home = "deleted" -> ""
      [] home = "other_cookie" -> "bid1"
      [] OTHER -> "ck1"

\* What the POST of set_watching_status does.
WriterResponses ==
    {"transport_error", "http_error", "other_status", "ok", "ok_r_false", "ok_not_json"}

\* lines 117-129: the submitted form.
Form(ck, subject_id, status, private, rating) ==
    [subject_id |-> subject_id, ck |-> ck, interest |-> status,
     rating |-> IF 1 <= rating /\ rating <= 5 THEN ToString(rating) ELSE "",
     private |-> IF private THEN "on" ELSE ""]

\* lines 130-151: "True", "False", or "raise" when response.json() raises.
SetWatchingStatus(resp) ==
    CASE resp = "transport_error" -> "False"     \* except around requests.post
      [] resp = "http_error" -> "False"          \* "if not response": status >= 400
      [] resp = "ok" -> "True"
      [] resp = "ok_r_false" -> "False"
      [] resp = "ok_not_json" -> "raise"
      [] OTHER -> "False"                        \* another status below 400

(***************************************************************************)
(* _sync_one.  env is what the outside does during the call: the two       *)
(* MediaChain calls (s1, s2), the wait for the dispatched coroutine        *)
(* (await: "ok", or "timeout" for a timeout or an exception of             *)
(* future.result) and the POST of the writer (resp).                       *)
(*                                                                         *)
(* The result holds the return value ("True", "False", or "raise" for an   *)
(* exception that leaves _sync_one), the two dicts as the call leaves      *)
(* them, and a record of what the call did: its path (out), the number of  *)
(* dispatches to the resolver, whether a MediaChain call or the wait       *)
(* raised, the forms posted by the writer, and whether the key had a       *)
(* PendingRetry entry when the call began (pending).                       *)
(***************************************************************************)
\* When the wait fails nothing else of the environment is observed.
Envs ==
    { env \in [s1 : StageOutcomes, s2 : StageOutcomes, await : {"ok"},
               resp : WriterResponses] :
        \* no POST is made when neither stage gives an id
        (env.s1 \notin TargetIds /\ env.s2 \notin TargetIds) =>
            env.resp = "transport_error" }
    \cup
    [s1 : {""}, s2 : {""}, await : {"timeout"}, resp : {"transport_error"}]

\* douban takes no POST whose ck is not the token of a session: a helper
\* without such a ck gets no "ok".
EnvsFor(ck) == { env \in Envs : ck \notin SessionTokens => env.resp # "ok" }

\* The outcome of a call whose writer posts the form a second time when the
\* first POST was refused.
OutcomeWithRetry(ret, synced, wait_retry, pending, out, resolver, raised, posts) ==
    [ret |-> ret, synced |-> synced, wait_retry |-> wait_retry,
     did |-> [out |-> out, pending |-> pending, resolver |-> resolver,
              raised |-> raised,
              posts |-> IF out = "submit_failed" THEN posts \o posts ELSE posts]]

Outcome(ret, synced, wait_retry, pending, out, resolver, raised, posts) ==
    [ret |-> ret, synced |-> synced, wait_retry |-> wait_retry,
     did |-> [out |-> out, pending |-> pending, resolver |-> resolver,
              raised |-> raised, posts |-> posts]]

\* lines 171-178
BundleEntry(title, year, trakt_rating, tmdb_id, imdb_id) ==
    [title |-> title, year |-> year, trakt_rating |-> trakt_rating,
     tmdb_id |-> tmdb_id, imdb_id |-> imdb_id]

\* lines 204-210
SubjectEntry(title, year, trakt_rating, subject_id) ==
    [title |-> title, year |-> year, trakt_rating |-> trakt_rating,
     subject_id |-> subject_id]

\* A SyncRecord that stores the rating on the douban scale.
SyncRecordConverted(subject_id, trakt_rating, title, year) ==
    [douban_id |-> subject_id, trakt_rating |-> TraktRatingToDouban(trakt_rating),
     title |-> title, year |-> year]

\* lines 192-197
SyncRecord(subject_id, trakt_rating, title, year) ==
    [douban_id |-> subject_id, trakt_rating |-> trakt_rating,
     title |-> title, year |-> year]

\* The test of lines 152-156 with the stored rating compared on the douban scale.
AlreadySyncedDoubanScale(synced, key, trakt_rating) ==
    /\ Has(synced, key)
    /\ synced[key].trakt_rating = TraktRatingToDouban(trakt_rating)
    /\ synced[key].douban_id # ""

\* The test of lines 152-156 without the comparison of the ratings.
AlreadySyncedAnyRating(synced, key, trakt_rating) ==
    /\ Has(synced, key)
    /\ synced[key].douban_id # ""

\* lines 152-156: the item is already synced with this rating.
AlreadySynced(synced, key, trakt_rating) ==
    /\ Has(synced, key)
    /\ synced[key].trakt_rating = trakt_rating
    /\ synced[key].douban_id # ""

\* lines 171-178 and 204-210: "if key not in wait_retry: wait_retry[key] = ..."
RecordRetry(wait_retry, key, entry) ==
    IF ~Has(wait_retry, key) THEN Put(wait_retry, key, entry) ELSE wait_retry

\* A success that leaves the PendingRetry entry in place.
KeepRetry(wait_retry, key) == wait_retry

\* A success that empties the PendingRetry dict.
ClearRetryAll(wait_retry, key) == EmptyDict

\* lines 198-199: "if key in wait_retry: del wait_retry[key]"
ClearRetry(wait_retry, key) ==
    IF Has(wait_retry, key) THEN Del(wait_retry, key) ELSE wait_retry

\* The test of line 147 with the title taken for an identifier too.
HasIdsOrTitle(item) ==
    LET movie == MovieOf(item)
    IN  movie.ids.tmdb # 0 \/ movie.ids.imdb # "" \/ movie.title # ""

\* line 147: the item carries a tmdb id or an imdb id
HasIds(item) ==
    LET ids == MovieOf(item).ids IN ids.tmdb # 0 \/ ids.imdb # ""

SyncOne(item, ck, private, synced, wait_retry, env) ==
    IF ~item.dict
    THEN Outcome("raise", synced, wait_retry, FALSE, "exception", 0, FALSE, << >>)
    ELSE
    LET movie == MovieOf(item)
        ids == movie.ids
        trakt_rating == TraktRating(item)
        douban_rating == TraktRatingToDouban(trakt_rating)
        tmdb_id == ids.tmdb
        imdb_id == ids.imdb
        title == movie.title
        year == movie.year
        key == KeyOf(item)
        subject_id == GetDoubanIdByTmdb(tmdb_id, imdb_id, title, env.s1, env.s2)
        raised == StageRaised(tmdb_id, imdb_id, title, env.s1, env.s2)
        form == Form(ck, subject_id, "collect", private, douban_rating)
        ret == SetWatchingStatus(env.resp)
        pending == Has(wait_retry, key)
    IN  IF ~HasIds(item)
        THEN Outcome("False", synced, wait_retry, pending, "no_ids", 0, FALSE, << >>)
        ELSE IF AlreadySynced(synced, key, trakt_rating)
        THEN Outcome("True", synced, wait_retry, pending, "already", 0, FALSE, << >>)
        ELSE IF env.await = "timeout"
        THEN Outcome("False", synced,
                     RecordRetry(wait_retry, key,
                                 BundleEntry(title, year, trakt_rating, tmdb_id, imdb_id)),
                     pending, "resolve_failed", 1, TRUE, << >>)
        ELSE IF subject_id = ""
        THEN Outcome("False", synced, wait_retry, pending, "not_found", 1, raised, << >>)
        ELSE IF ret = "raise"
        THEN Outcome("raise", synced, wait_retry, pending, "exception", 1, raised, <<form>>)
        ELSE IF ret = "True"
        THEN Outcome("True",
                     Put(synced, key, SyncRecord(subject_id, trakt_rating, title, year)),
                     ClearRetry(wait_retry, key),
                     pending, "synced", 1, raised, <<form>>)
        ELSE Outcome("False", synced,
                     RecordRetry(wait_retry, key,
                                 SubjectEntry(title, year, trakt_rating, subject_id)),
                     pending, "submit_failed", 1, raised, <<form>>)

(***************************************************************************)
(* The plugin.                                                             *)
(***************************************************************************)
\* The two callers of sync_trakt_ratings_to_douban: the scheduler's service
\* (get_service) and the manual trigger (_api_sync).
Runs == {"cron", "api"}

\* lines 46-53: the class attributes
DefaultConfig ==
    [enable |-> FALSE, trakt_username |-> "", trakt_client_id |-> "",
     private |-> TRUE, max_sync_count |-> 0]

\* The configurations init_plugin is called with.
Configs ==
    { DefaultConfig,
      [enable |-> TRUE, trakt_username |-> "", trakt_client_id |-> "c",
       private |-> TRUE, max_sync_count |-> 0],
      [enable |-> TRUE, trakt_username |-> "u", trakt_client_id |-> "",
       private |-> TRUE, max_sync_count |-> 0],
      [enable |-> TRUE, trakt_username |-> "u", trakt_client_id |-> "c",
       private |-> TRUE, max_sync_count |-> 0],
      [enable |-> TRUE, trakt_username |-> "u", trakt_client_id |-> "c",
       private |-> FALSE, max_sync_count |-> 1],
      [enable |-> TRUE, trakt_username |-> "u", trakt_client_id |-> "c",
       private |-> FALSE, max_sync_count |-> -1] }

\* What is remembered of the rating service's response: everything but the list.
Seen(resp) ==
    [outcome |-> resp.outcome, status |-> resp.status, body |-> resp.body,
     empty |-> resp.data = << >>]

NotFetched == [outcome |-> "unasked", status |-> 0, body |-> "invalid", empty |-> TRUE]

\* The frame of an invocation that is not running.  io lists the get_data and
\* save_data calls the invocation has made; log holds, per processed item, what
\* _sync_one did; resp is the response the fetch got, source the list it
\* returned (before the truncation).
NoFrame ==
    [pc |-> "idle", items |-> << >>, synced |-> EmptyDict, wait_retry |-> EmptyDict,
     ck |-> "", success_count |-> 0, fail_count |-> 0, log |-> << >>, io |-> {},
     resp |-> NotFetched, source |-> << >>]

NoCall == [item |-> NotADict, ret |-> 0]

Uncalled == [fn |-> "", arg |-> << >>, done |-> FALSE, ret |-> << >>]

Init ==
    /\ config = DefaultConfig
    /\ store = [synced |-> EmptyDict, wait |-> EmptyDict]
    /\ run = [r \in Runs |-> NoFrame]
    /\ conv = NoCall
    /\ call = Uncalled

AllIdle == \A r \in Runs : run[r].pc = "idle"

\* init_plugin
InitPlugin(c) ==
    /\ AllIdle
    /\ config' = c
    /\ UNCHANGED <<store, run, conv, call>>

\* lines 215-220: the guards of sync_trakt_ratings_to_douban
Guards(cfg) ==
    IF ~cfg.enable THEN "done"
    ELSE IF cfg.trakt_username = "" \/ cfg.trakt_client_id = "" THEN "done"
    ELSE "fetch"

\* A start that waits until no other invocation is running.
StartLocked(r) ==
    /\ AllIdle
    /\ run' = [run EXCEPT ![r].pc = Guards(config)]
    /\ UNCHANGED <<config, store, conv, call>>

Start(r) ==
    /\ run[r].pc = "idle"
    /\ run' = [run EXCEPT ![r].pc = Guards(config)]
    /\ UNCHANGED <<config, store, conv, call>>

\* lines 223-230: fetch, return on an empty list, truncate
Fetched(f, cfg, resp) ==
    LET items == FetchTraktRatingsMovies(cfg, resp)
    IN  IF items = << >>
        THEN [f EXCEPT !.pc = "done", !.resp = Seen(resp)]
        ELSE [f EXCEPT !.pc = "get_synced", !.resp = Seen(resp), !.source = items,
                       !.items = Truncate(items, cfg.max_sync_count)]

Fetch(r) ==
    /\ run[r].pc = "fetch"
    /\ \E resp \in FetchResponses :
           run' = [run EXCEPT ![r] = Fetched(run[r], config, resp)]
    /\ UNCHANGED <<config, store, conv, call>>

\* line 232: synced = self.get_data("synced") or {}
GetSynced(r) ==
    /\ run[r].pc = "get_synced"
    /\ run' = [run EXCEPT ![r].pc = "get_wait",
                          ![r].synced = store.synced,
                          ![r].io = @ \cup {"get_synced"}]
    /\ UNCHANGED <<config, store, conv, call>>

\* line 233: wait_retry = self.get_data("wait") or {}
GetWait(r) ==
    /\ run[r].pc = "get_wait"
    /\ run' = [run EXCEPT ![r].pc = "helper",
                          ![r].wait_retry = store.wait,
                          ![r].io = @ \cup {"get_wait"}]
    /\ UNCHANGED <<config, store, conv, call>>

\* lines 235-239: the helper is built; an exception of its constructor ends the run
\* The helper with a constructor that raises when it got no ck.
HelperBuiltOrAbort(f, home) ==
    LET ck == NewDoubanHelper(home)
    IN  IF ck = "raise" \/ ck = ""
        THEN [f EXCEPT !.pc = "done"]
        ELSE [f EXCEPT !.pc = "loop", !.ck = ck]

HelperBuilt(f, home) ==
    LET ck == NewDoubanHelper(home)
    IN  IF ck = "raise"
        THEN [f EXCEPT !.pc = "done"]
        ELSE [f EXCEPT !.pc = "loop", !.ck = ck]

NewHelper(r) ==
    /\ run[r].pc = "helper"
    /\ \E cookies \in CookieStrings :
           \E home \in HomePagesFor(cookies) :
               run' = [run EXCEPT ![r] = HelperBuilt(run[r], home)]
    /\ UNCHANGED <<config, store, conv, call>>

\* The loop body without its try/except: an exception of _sync_one ends the run.
IteratedNoCatch(f, o) ==
    IF o.ret = "raise"
    THEN [f EXCEPT !.pc = "done", !.log = Append(@, o.did)]
    ELSE [f EXCEPT !.synced = o.synced, !.wait_retry = o.wait_retry,
                   !.log = Append(@, o.did),
                   !.success_count = IF o.ret = "True" THEN @ + 1 ELSE @,
                   !.fail_count = IF o.ret = "True" THEN @ ELSE @ + 1,
                   !.pc = IF Len(f.log) + 1 = Len(f.items) THEN "save_synced" ELSE "loop"]

\* The loop followed by a persist step that is skipped when nothing succeeded.
IteratedSaveOnSuccess(f, o) ==
    LET ok == IF o.ret = "True" THEN f.success_count + 1 ELSE f.success_count
    IN  [f EXCEPT !.synced = o.synced, !.wait_retry = o.wait_retry,
                  !.log = Append(@, o.did),
                  !.success_count = ok,
                  !.fail_count = IF o.ret = "True" THEN @ ELSE @ + 1,
                  !.pc = IF Len(f.log) + 1 < Len(f.items) THEN "loop"
                         ELSE IF ok = 0 THEN "done" ELSE "save_synced"]

\* The loop leaving at the first item that fails without an exception.
IteratedBreakOnFalse(f, o) ==
    [f EXCEPT !.synced = o.synced, !.wait_retry = o.wait_retry,
              !.log = Append(@, o.did),
              !.success_count = IF o.ret = "True" THEN @ + 1 ELSE @,
              !.fail_count = IF o.ret = "True" THEN @ ELSE @ + 1,
              !.pc = IF Len(f.log) + 1 = Len(f.items) \/ o.ret = "False"
                     THEN "save_synced" ELSE "loop"]

\* The loop with an except clause that logs the exception and counts nothing.
IteratedExceptionUncounted(f, o) ==
    [f EXCEPT !.synced = o.synced, !.wait_retry = o.wait_retry,
              !.log = Append(@, o.did),
              !.success_count = IF o.ret = "True" THEN @ + 1 ELSE @,
              !.fail_count = IF o.ret = "False" THEN @ + 1 ELSE @,
              !.pc = IF Len(f.log) + 1 = Len(f.items) THEN "save_synced" ELSE "loop"]

\* The loop with an except clause that puts the item that raised into the
\* PendingRetry dict.
IteratedRetryOnException(f, o) ==
    LET item == f.items[Len(f.log) + 1]
        movie == MovieOf(item)
    IN  [f EXCEPT !.synced = o.synced,
                  !.wait_retry =
                      IF o.ret = "raise"
                      THEN RecordRetry(o.wait_retry, KeyOf(item),
                                       BundleEntry(movie.title, movie.year,
                                                   TraktRating(item),
                                                   movie.ids.tmdb, movie.ids.imdb))
                      ELSE o.wait_retry,
                  !.log = Append(@, o.did),
                  !.success_count = IF o.ret = "True" THEN @ + 1 ELSE @,
                  !.fail_count = IF o.ret = "True" THEN @ ELSE @ + 1,
                  !.pc = IF Len(f.log) + 1 = Len(f.items) THEN "save_synced" ELSE "loop"]

\* lines 243-251: one iteration of the loop, with the outcome o of _sync_one
Iterated(f, o) ==
    [f EXCEPT !.synced = o.synced, !.wait_retry = o.wait_retry,
              !.log = Append(@, o.did),
              !.success_count = IF o.ret = "True" THEN @ + 1 ELSE @,
              !.fail_count = IF o.ret = "True" THEN @ ELSE @ + 1,
              !.pc = IF Len(f.log) + 1 = Len(f.items) THEN "save_synced" ELSE "loop"]

\* The outcome o of _sync_one for the item, with a note in what is logged of
\* it: whether the key had a SyncRecord with another rating when it was called.
Noted(o, item, synced) ==
    [o EXCEPT !.did =
        [out |-> @.out, pending |-> @.pending, resolver |-> @.resolver,
         raised |-> @.raised, posts |-> @.posts,
         stale |-> /\ item.dict
                   /\ Has(synced, KeyOf(item))
                   /\ synced[KeyOf(item)].trakt_rating # TraktRating(item)]]

SyncItem(r) ==
    /\ run[r].pc = "loop"
    /\ \E env \in EnvsFor(run[r].ck) :
           LET f == run[r]
               item == f.items[Len(f.log) + 1]
               o == Noted(SyncOne(item, f.ck, config.private, f.synced, f.wait_retry, env),
                          item, f.synced)
           IN  run' = [run EXCEPT ![r] = Iterated(f, o)]
    /\ UNCHANGED <<config, store, conv, call>>

\* line 253: self.save_data("synced", synced)
SaveSynced(r) ==
    /\ run[r].pc = "save_synced"
    /\ store' = [store EXCEPT !.synced = run[r].synced]
    /\ run' = [run EXCEPT ![r].pc = "save_wait", ![r].io = @ \cup {"save_synced"}]
    /\ UNCHANGED <<config, conv, call>>

\* line 254: self.save_data("wait", wait_retry)
SaveWait(r) ==
    /\ run[r].pc = "save_wait"
    /\ store' = [store EXCEPT !.wait = run[r].wait_retry]
    /\ run' = [run EXCEPT ![r].pc = "done", ![r].io = @ \cup {"save_wait"}]
    /\ UNCHANGED <<config, conv, call>>

\* sync_trakt_ratings_to_douban returns: its locals are gone
Return(r) ==
    /\ run[r].pc = "done"
    /\ run' = [run EXCEPT ![r] = NoFrame]
    /\ UNCHANGED <<config, store, conv, call>>

Step(r) ==
    \/ Start(r)
    \/ Fetch(r)
    \/ GetSynced(r)
    \/ GetWait(r)
    \/ NewHelper(r)
    \/ SyncItem(r)
    \/ SaveSynced(r)
    \/ SaveWait(r)
    \/ Return(r)

\* The host runs one invocation at a time.
Serial(r) == \A o \in Runs \ {r} : run[o].pc = "idle"

Next ==
    \/ \E c \in Configs : InitPlugin(c)
    \/ \E r \in Runs :
           \/ Serial(r) /\ Start(r)
           \/ Serial(r) /\ Fetch(r)
           \/ Serial(r) /\ GetSynced(r)
           \/ Serial(r) /\ GetWait(r)
           \/ Serial(r) /\ NewHelper(r)
           \/ Serial(r) /\ SyncItem(r)
           \/ Serial(r) /\ SaveSynced(r)
           \/ Serial(r) /\ SaveWait(r)
           \/ Serial(r) /\ Return(r)

Spec == Init /\ [][Next]_vars

\* Every blocking call of a run has a timeout (30 s for the fetch and the
\* resolver, 10 s for douban), so a run that has started goes on to its return.
Progress ==
    \E r \in Runs :
        /\ Serial(r)
        /\ \/ Fetch(r) \/ GetSynced(r) \/ GetWait(r) \/ NewHelper(r) \/ SyncItem(r)
           \/ SaveSynced(r) \/ SaveWait(r) \/ Return(r)

FairSpec == Spec /\ WF_vars(Progress)

(***************************************************************************)
(* Calls of the rating conversion alone: lines 135-139 of _sync_one, on    *)
(* items whose rating ranges over -RatingLow .. RatingHigh or is absent.   *)
(***************************************************************************)
RatedItems ==
    { [dict |-> TRUE, rating |-> n] : n \in (0 - RatingLow)..RatingHigh }
    \cup { [dict |-> TRUE] }

ConvInit ==
    /\ config = DefaultConfig
    /\ store = [synced |-> EmptyDict, wait |-> EmptyDict]
    /\ run = [r \in Runs |-> NoFrame]
    /\ conv \in { [item |-> it, ret |-> 0] : it \in RatedItems }
    /\ call = Uncalled

\* lines 135-139: trakt_rating, then douban_rating = _trakt_rating_to_douban(.)
Convert ==
    /\ conv.ret = 0
    /\ conv' = [conv EXCEPT !.ret = TraktRatingToDouban(TraktRating(conv.item))]
    /\ UNCHANGED <<config, store, run, call>>

NextItem ==
    /\ conv.ret # 0
    /\ \E it \in RatedItems : conv' = [item |-> it, ret |-> 0]
    /\ UNCHANGED <<config, store, run, call>>

ConvNext == Convert \/ NextItem

ConvSpec == ConvInit /\ [][ConvNext]_vars

(***************************************************************************)
(* Overlapping runs: the manual trigger (_api_sync) calls                  *)
(* sync_trakt_ratings_to_douban in the thread of the request while the     *)
(* scheduler's job may be in it; the plugin has no lock.  The steps are    *)
(* those of Spec without the guard Serial.  The plugin is configured, then *)
(* each of the two callers runs once, on a list of at most                 *)
(* MaxOverlapItems items.                                                  *)
(***************************************************************************)
Short(r) ==
    /\ run[r].pc = "get_synced"
    /\ Len(run[r].source) <= MaxOverlapItems

OverlapNext ==
    \/ \E c \in Configs : InitPlugin(c)
    \/ \E r \in Runs :
           \/ Start(r)
           \/ Fetch(r) /\ Short(r)'
           \/ GetSynced(r)
           \/ GetWait(r)
           \/ NewHelper(r)
           \/ SyncItem(r)
           \/ SaveSynced(r)
           \/ SaveWait(r)

OverlapSpec == Init /\ [][OverlapNext]_vars

(***************************************************************************)
(* Functions of the plugin called alone: Init draws the function and its  *)
(* arguments, the action applies the function.                            *)
(***************************************************************************)

\* The items whose key is derived: with and without a rating, a trakt id in
\* ids, a trakt_id of the movie, a slug and a year.
KeyItems ==
    { [dict |-> TRUE, rating |-> n, movie |-> mv] :
        n \in {6, 8},
        mv \in { [title |-> t, year |-> y,
                  ids |-> [trakt |-> tr, slug |-> sl, imdb |-> "tt1", tmdb |-> 1]] :
                    t \in {"X", "Y"}, y \in {0, 2020}, tr \in {0, 100},
                    sl \in {"", "x-2020"} }
              \cup
                { [title |-> t, year |-> y, trakt_id |-> 7,
                  ids |-> [trakt |-> tr, slug |-> sl, imdb |-> "tt1", tmdb |-> 1]] :
                    t \in {"X", "Y"}, y \in {0, 2020}, tr \in {0, 100},
                    sl \in {"", "x-2020"} } }
    \cup
    { [dict |-> TRUE, movie |-> mv] :
        mv \in { [title |-> t, year |-> y,
                  ids |-> [trakt |-> tr, slug |-> sl, imdb |-> "tt1", tmdb |-> 1]] :
                    t \in {"X", "Y"}, y \in {0, 2020}, tr \in {0, 100},
                    sl \in {"", "x-2020"} } }

\* The calls of set_watching_status: its arguments and what douban answers.
WriterCalls ==
    [subject_id : TargetIds, status : {"collect"}, private : BOOLEAN,
     rating : {1, 3, 5}, resp : WriterResponses]

\* The calls of _get_douban_id_by_tmdb: its arguments and what the two
\* MediaChain calls do; each chain has an id of its own to give.
ResolverCalls ==
    [tmdb_id : {0, 1}, imdb_id : {"", "tt1"}, title : {"", "X"},
     s1 : {"raise", "", "555"}, s2 : {"raise", "", "777"}]

Calls ==
    { [fn |-> "key", arg |-> it, done |-> FALSE, ret |-> << >>] : it \in KeyItems }
    \cup
    { [fn |-> "_get_douban_id_by_tmdb", arg |-> a, done |-> FALSE, ret |-> << >>] :
        a \in ResolverCalls }
    \cup
    { [fn |-> "set_watching_status", arg |-> a, done |-> FALSE, ret |-> << >>] :
        a \in WriterCalls }

PureInit ==
    /\ config = DefaultConfig
    /\ store = [synced |-> EmptyDict, wait |-> EmptyDict]
    /\ run = [r \in Runs |-> NoFrame]
    /\ conv = NoCall
    /\ call \in Calls

\* lines 140-151 of _sync_one: the key of the item
DeriveKey ==
    /\ call.fn = "key"
    /\ ~call.done
    /\ call' = [call EXCEPT !.done = TRUE, !.ret = KeyOf(call.arg)]
    /\ UNCHANGED <<config, store, run, conv>>

\* douban_helper.py lines 105-151
CallWriter ==
    /\ call.fn = "set_watching_status"
    /\ ~call.done
    /\ call' = [call EXCEPT !.done = TRUE, !.ret = SetWatchingStatus(call.arg.resp)]
    /\ UNCHANGED <<config, store, run, conv>>

\* lines 102-126
CallResolver ==
    /\ call.fn = "_get_douban_id_by_tmdb"
    /\ ~call.done
    /\ LET a == call.arg
       IN  call' = [call EXCEPT
                       !.done = TRUE,
                       !.ret = [id |-> GetDoubanIdByTmdb(a.tmdb_id, a.imdb_id, a.title,
                                                         a.s1, a.s2),
                                called |-> StagesCalled(a.tmdb_id, a.imdb_id, a.title,
                                                        a.s1, a.s2)]]
    /\ UNCHANGED <<config, store, run, conv>>

PureNext ==
    \/ DeriveKey
    \/ CallWriter
    \/ CallResolver

PureSpec == PureInit /\ [][PureNext]_vars

(***************************************************************************)
(* Properties.                                                             *)
(***************************************************************************)
Returned == conv.ret # 0

\* C1: the converter returns f(0)=1, f(1)=1, f(2)=1, f(3)=2, f(4)=2, f(5)=3,
\* f(10)=5 and f(-3)=1.
C1_ListedValues ==
    (Returned /\ Has(conv.item, "rating")) =>
        /\ (conv.item.rating = 0 => conv.ret = 1)
        /\ (conv.item.rating = 1 => conv.ret = 1)
        /\ (conv.item.rating = 2 => conv.ret = 1)
        /\ (conv.item.rating = 3 => conv.ret = 2)
        /\ (conv.item.rating = 4 => conv.ret = 2)
        /\ (conv.item.rating = 5 => conv.ret = 3)
        /\ (conv.item.rating = 10 => conv.ret = 5)
        /\ (conv.item.rating = 0 - 3 => conv.ret = 1)

\* C2: for every integer rating, also one that is not positive, above 10 or
\* absent (read as 0), the converted rating is an integer from 1 to 5, and it
\* is 1 for every rating that is not positive.
C2_InRange ==
    Returned =>
        /\ conv.ret \in 1..5
        /\ (TraktRating(conv.item) <= 0 => conv.ret = 1)

\* A rating above 10 has been converted, and an absent one.
C2_Witness ==
    /\ Returned
    /\ \/ Has(conv.item, "rating") /\ conv.item.rating > 10 /\ conv.ret = 5
       \/ ~Has(conv.item, "rating") /\ conv.ret = 1

\* The run has written both dicts back and has not returned yet.
Persisted(r) ==
    /\ run[r].pc = "done"
    /\ {"save_synced", "save_wait"} \subseteq run[r].io

\* The loop of run r processes its next item in this step.
Processes(r) ==
    /\ run[r].pc = "loop"
    /\ Len(run'[r].log) = Len(run[r].log) + 1

\* C3: an item that was synced before, seen again with the rating of its
\* persisted SyncRecord, costs no resolver dispatch and no writer call, counts
\* as a success and leaves the entries of its key in both dicts as persisted.
C3_Idempotent ==
    [][\A r \in Runs :
        LET f == run[r]
            g == run'[r]
            n == Len(f.log)
            item == f.items[n + 1]
            key == KeyOf(item)
        IN  ( /\ Processes(r)
              /\ item.dict
              /\ HasIds(item)
              /\ Has(store.synced, key)
              /\ store.synced[key].trakt_rating = TraktRating(item) )
            => /\ g.log[n + 1].resolver = 0
               /\ g.log[n + 1].posts = << >>
               /\ g.success_count = f.success_count + 1
               /\ g.fail_count = f.fail_count
               /\ Has(g.synced, key)
               /\ g.synced[key] = store.synced[key]
               /\ Has(g.wait_retry, key) <=> Has(store.wait, key)
               /\ Has(store.wait, key) => g.wait_retry[key] = store.wait[key]
      ]_vars

\* A run has met an item whose persisted SyncRecord holds its rating.
C3_Witness ==
    \E r \in Runs : \E i \in 1..Len(run[r].log) :
        /\ run[r].log[i].out = "already"
        /\ Has(store.synced, KeyOf(run[r].items[i]))
        /\ store.synced[KeyOf(run[r].items[i])].trakt_rating = TraktRating(run[r].items[i])

\* C4: when a run has persisted, no key of its items is both current in the
\* SyncRecord dict (target id not empty, rating equal to the item's rating) and
\* in the PendingRetry dict.
C4_CurrentNotPending ==
    \A r \in Runs :
        Persisted(r) =>
            \A i \in 1..Len(run[r].items) :
                LET item == run[r].items[i]
                    key == KeyOf(item)
                IN  ~ ( /\ item.dict
                        /\ Has(store.synced, key)
                        /\ store.synced[key].douban_id # ""
                        /\ store.synced[key].trakt_rating = TraktRating(item)
                        /\ Has(store.wait, key) )

\* C5: an item that had a PendingRetry entry, and for which the resolver now
\* gave a target id and the writer succeeded, is after the pass out of the
\* PendingRetry dict and in the SyncRecord dict.
C5_RetryCleared ==
    \A r \in Runs :
        Persisted(r) =>
            \A i \in 1..Len(run[r].log) :
                (run[r].log[i].pending /\ run[r].log[i].out = "synced") =>
                    /\ ~Has(store.wait, KeyOf(run[r].items[i]))
                    /\ Has(store.synced, KeyOf(run[r].items[i]))

\* A persisted pass has synced an item that had a PendingRetry entry.
C5_Witness ==
    \E r \in Runs :
        /\ Persisted(r)
        /\ \E i \in 1..Len(run[r].log) :
               run[r].log[i].pending /\ run[r].log[i].out = "synced"

\* C6, for the failure that reaches the handler of lines 169-179 (the wait for
\* the resolver times out or raises): after the pass the PendingRetry dict
\* holds, under the item's key, the item's tmdb id, imdb id, title, year and
\* rating.
C6_FailureRecordsBundle ==
    \A r \in Runs :
        Persisted(r) =>
            \A i \in 1..Len(run[r].log) :
                LET item == run[r].items[i]
                    movie == MovieOf(item)
                IN  run[r].log[i].out = "resolve_failed" =>
                        /\ Has(store.wait, KeyOf(item))
                        /\ store.wait[KeyOf(item)] =
                               BundleEntry(movie.title, movie.year, TraktRating(item),
                                           movie.ids.tmdb, movie.ids.imdb)

\* C7: when the writer returned failure for a resolved item, after the pass the
\* PendingRetry dict holds, under the item's key, the resolved target id and
\* the item's rating, whether or not the key had an entry before.
C7_FailureRecordsSubject ==
    \A r \in Runs :
        Persisted(r) =>
            \A i \in 1..Len(run[r].log) :
                LET item == run[r].items[i]
                    movie == MovieOf(item)
                    did == run[r].log[i]
                IN  did.out = "submit_failed" =>
                        /\ Has(store.wait, KeyOf(item))
                        /\ store.wait[KeyOf(item)] =
                               SubjectEntry(movie.title, movie.year, TraktRating(item),
                                            did.posts[1].subject_id)

\* The fetch gave the run nothing to process: no response, an exception, a
\* status other than 200, a body that is no JSON array, or an empty array.
NothingFetched(resp) ==
    \/ resp.outcome # "response"
    \/ resp.status # 200
    \/ resp.body # "array"
    \/ resp.empty

\* The run ended at one of the guards or at the fetch.
Aborted(r) ==
    /\ run[r].pc = "done"
    /\ \/ ~config.enable
       \/ config.trakt_username = ""
       \/ config.trakt_client_id = ""
       \/ NothingFetched(run[r].resp)

\* C8: a run that is disabled, lacks the username or the client id, or whose
\* fetch gave nothing, ends before the loop: it processes no item and has made
\* no get_data and no save_data call; no step of a run before its first
\* get_data changes the persisted dicts.
C8_AbortLeavesState ==
    /\ [](\A r \in Runs :
            Aborted(r) =>
                /\ run[r].log = << >>
                /\ run[r].io = {}
                /\ run[r].items = << >>)
    /\ [][\A r \in Runs :
            (run[r].pc \in {"idle", "fetch"} /\ run'[r] # run[r]) => store' = store
         ]_vars

\* A run got a 429 with persisted dicts that are not empty, and ended.
C8_Witness ==
    \E r \in Runs :
        /\ Aborted(r)
        /\ run[r].resp.status = 429
        /\ run[r].io = {}
        /\ store.synced # EmptyDict
        /\ store.wait # EmptyDict

Rank(f) ==
    CASE f.pc = "loop" -> Len(f.log)
      [] f.pc = "save_synced" -> Len(f.items)
      [] f.pc = "save_wait" -> Len(f.items) + 1
      [] f.pc = "done" -> Len(f.items) + 2
      [] OTHER -> 0 - 1

PersistsEventually ==
    \A r \in Runs :
        (run[r].pc = "loop") ~>
            ( /\ Persisted(r)
              /\ store.synced = run[r].synced
              /\ store.wait = run[r].wait_retry )

C10_BatchResilience ==
    /\ [](\A r \in Runs :
            (run[r].log # << >> /\ run[r].pc \in {"save_synced", "save_wait", "done"})
                => Len(run[r].log) = Len(run[r].items))
    /\ [][\A r \in Runs :
            (Processes(r) /\ run'[r].log[Len(run'[r].log)].out = "exception") =>
                /\ run'[r].fail_count = run[r].fail_count + 1
                /\ run'[r].success_count = run[r].success_count
                /\ run'[r].pc = IF Len(run'[r].log) < Len(run[r].items)
                                THEN "loop" ELSE "save_synced"
         ]_vars

\* After an item that raised (an item that is no dict, or the writer raising),
\* a later item of the same list was processed and counted.
C10_Witness ==
    \E r \in Runs :
        /\ Len(run[r].log) = 2
        /\ run[r].log[1].out = "exception"
        /\ run[r].log[2].out = "synced"
        /\ run[r].success_count = 1
        /\ run[r].fail_count = 1

\* The entry of key k in dict d, as a sequence of at most one element.
Entry(d, k) == IF Has(d, k) THEN <<d[k]>> ELSE << >>

\* The keys of the items of the fetched list that the truncation dropped.
DroppedKeys(f) ==
    { KeyOf(f.source[i]) :
        i \in { j \in Len(f.items) + 1 .. Len(f.source) : f.source[j].dict } }

\* C11: with max_sync_count = N > 0 and a fetched list of more than N items
\* the run processes exactly the first N items, in the order of the list; with
\* max_sync_count <= 0 it processes every item.  An item behind the N-th gets
\* no call of _sync_one (so no resolver and no writer call), and no step of
\* the run changes the persisted entries of its key in either dict.
C11_Truncation ==
    /\ [](\A r \in Runs :
            LET f == run[r]
                N == config.max_sync_count
            IN  f.source # << >> =>
                    /\ (N > 0 /\ Len(f.source) > N) =>
                           /\ Len(f.items) = N
                           /\ \A i \in 1..N : f.items[i] = f.source[i]
                    /\ (N <= 0 \/ Len(f.source) <= N) => f.items = f.source
                    /\ Len(f.log) <= Len(f.items)
                    /\ Persisted(r) => Len(f.log) = Len(f.items))
    /\ [][\A r \in Runs : \A k \in DroppedKeys(run[r]) :
            /\ Entry(store'.synced, k) = Entry(store.synced, k)
            /\ Entry(store'.wait, k) = Entry(store.wait, k)
            /\ (run[r].pc = "loop" /\ run'[r] # run[r]) =>
                   /\ Entry(run'[r].synced, k) = Entry(store.synced, k)
                   /\ Entry(run'[r].wait_retry, k) = Entry(store.wait, k)
         ]_vars

\* A run with max_sync_count = 1 fetched two items, synced the first and
\* persisted; the second, dropped, has its key in the persisted dicts from an
\* earlier run.
C11_Witness ==
    \E r \in Runs :
        /\ Persisted(r)
        /\ config.max_sync_count = 1
        /\ Len(run[r].source) = 2
        /\ Len(run[r].log) = 1
        /\ run[r].log[1].out = "synced"
        /\ \E k \in DroppedKeys(run[r]) : Has(store.synced, k) \/ Has(store.wait, k)

\* The item with another rating, or with none.
Rerated(item, n) == [dict |-> TRUE, rating |-> n, movie |-> item.movie]
Derated(item) == [dict |-> TRUE, movie |-> item.movie]

\* C12: the key is the trakt id (of ids, else of the movie) as a string when
\* there is one, else the slug when there is one, else "{title}_{year}"; it
\* does not depend on the rating: the same item with any other rating, or
\* with none, has the same key.
C12_KeyDerivation ==
    (call.fn = "key" /\ call.done) =>
        LET movie == call.arg.movie
            native == IF movie.ids.trakt # 0 THEN movie.ids.trakt
                      ELSE IF Has(movie, "trakt_id") THEN movie.trakt_id
                      ELSE 0
        IN  /\ native # 0 => call.ret = ToString(native)
            /\ (native = 0 /\ movie.ids.slug # "") => call.ret = movie.ids.slug
            /\ (native = 0 /\ movie.ids.slug = "") =>
                   call.ret = movie.title \o "_" \o
                              (IF movie.year = 0 THEN "None" ELSE ToString(movie.year))
            /\ \A n \in 0..10 : KeyOf(Rerated(call.arg, n)) = call.ret
            /\ KeyOf(Derated(call.arg)) = call.ret

\* The key of a rated item that has a trakt id and a slug was derived, and
\* the key of one that has only a slug.
C12_Witness ==
    /\ call.fn = "key"
    /\ call.done
    /\ Has(call.arg, "rating")
    /\ call.arg.movie.ids.slug = "x-2020"
    /\ \/ call.arg.movie.ids.trakt = 100 /\ call.ret = "100"
       \/ /\ call.arg.movie.ids.trakt = 0
          /\ ~Has(call.arg.movie, "trakt_id")
          /\ call.ret = "x-2020"

\* C13: an item that still has its catalogue ids, whose key has a persisted
\* SyncRecord with another rating, is not skipped as already synced: the
\* resolver is dispatched for it and, when the resolver gives a target id, the
\* writer is called with the converted new rating; when the writer succeeds
\* the item counts as a success and the SyncRecord holds the new rating, in
\* the run and, once the run has persisted, in the store.
C13_ResyncOnChange ==
    /\ [](\A r \in Runs :
            Persisted(r) =>
                \A i \in 1..Len(run[r].log) :
                    (run[r].log[i].stale /\ run[r].log[i].out = "synced") =>
                        /\ Has(store.synced, KeyOf(run[r].items[i]))
                        /\ store.synced[KeyOf(run[r].items[i])].trakt_rating
                               = TraktRating(run[r].items[i]))
    /\ [][\A r \in Runs :
            LET f == run[r]
                g == run'[r]
                n == Len(f.log)
                item == f.items[n + 1]
                key == KeyOf(item)
                did == g.log[n + 1]
            IN  ( /\ Processes(r)
                  /\ item.dict
                  /\ HasIds(item)
                  /\ Has(store.synced, key)
                  /\ store.synced[key].trakt_rating # TraktRating(item) )
                => /\ did.stale
                   /\ did.out \in {"resolve_failed", "not_found", "synced",
                                    "submit_failed", "exception"}
                   /\ did.resolver = 1
                   /\ did.out \in {"synced", "submit_failed", "exception"} =>
                          /\ Len(did.posts) = 1
                          /\ did.posts[1].rating
                                 = ToString(TraktRatingToDouban(TraktRating(item)))
                   /\ did.out = "synced" =>
                          /\ g.success_count = f.success_count + 1
                          /\ g.synced[key].trakt_rating = TraktRating(item)
                          /\ g.synced[key].trakt_rating # store.synced[key].trakt_rating
         ]_vars

\* A persisted run has synced again, with rating 6, the movie whose SyncRecord
\* held another rating; the store now holds 6.
C13_Witness ==
    \E r \in Runs : \E i \in 1..Len(run[r].log) :
        /\ Persisted(r)
        /\ run[r].log[i].stale
        /\ run[r].log[i].out = "synced"
        /\ TraktRating(run[r].items[i]) = 6
        /\ run[r].log[i].posts[1].rating = "3"
        /\ store.synced[KeyOf(run[r].items[i])].trakt_rating = 6

\* C14: when an item with rating r is synced (the resolver gave a target id
\* and the writer succeeded), the one form submitted carries that target id,
\* the status "collect", the converted rating and the configured private flag;
\* the SyncRecord of the key is exactly {target id, r, title, year}; the
\* PendingRetry entries of the other keys are as before and the success count
\* is one higher.  For rating 8, trakt id 100, target id "555": the form
\* carries rating 4 and SyncRecord["100"] is {"555", 8, "X", 2020}.
C14_SuccessfulSync ==
    [][\A r \in Runs :
        LET f == run[r]
            g == run'[r]
            n == Len(f.log)
            item == f.items[n + 1]
            movie == MovieOf(item)
            key == KeyOf(item)
            did == g.log[n + 1]
        IN  (Processes(r) /\ did.out = "synced") =>
                /\ Len(did.posts) = 1
                /\ did.posts[1].subject_id \in TargetIds
                /\ did.posts[1] =
                       [subject_id |-> did.posts[1].subject_id, ck |-> f.ck,
                        interest |-> "collect",
                        rating |-> ToString(TraktRatingToDouban(TraktRating(item))),
                        private |-> IF config.private THEN "on" ELSE ""]
                /\ Has(g.synced, key)
                /\ g.synced[key] =
                       [douban_id |-> did.posts[1].subject_id,
                        trakt_rating |-> TraktRating(item),
                        title |-> movie.title, year |-> movie.year]
                /\ \A k \in (DOMAIN f.wait_retry \cup DOMAIN g.wait_retry) \ {key} :
                       Entry(g.wait_retry, k) = Entry(f.wait_retry, k)
                /\ \A k \in (DOMAIN f.synced \cup DOMAIN g.synced) \ {key} :
                       Entry(g.synced, k) = Entry(f.synced, k)
                /\ g.success_count = f.success_count + 1
                /\ g.fail_count = f.fail_count
                /\ item = Item(8, "X", 2020, 100, "x-2020", "tt1", 1) =>
                       /\ did.posts[1].rating = "4"
                       /\ g.synced["100"] =
                              [douban_id |-> "555", trakt_rating |-> 8,
                               title |-> "X", year |-> 2020]
      ]_vars

\* With private off, the movie rated 8 was synced as the second item of a
\* list while the other movie has a PendingRetry entry.
C14_Witness ==
    \E r \in Runs :
        /\ ~config.private
        /\ Len(run[r].log) = 2
        /\ run[r].items[2] = Item(8, "X", 2020, 100, "x-2020", "tt1", 1)
        /\ run[r].log[2].out = "synced"
        /\ run[r].log[2].posts[1].rating = "4"
        /\ run[r].log[2].posts[1].private = ""
        /\ run[r].success_count = 1
        /\ Has(run[r].synced, "100")
        /\ run[r].synced["100"].trakt_rating = 8
        /\ Has(run[r].wait_retry, "Y_None")

\* C15: set_watching_status returns a boolean and never raises: false on a
\* transport error, on a status other than 200, on a 200 whose body is no
\* JSON and on a 200 whose r is false; true exactly on a 200 with a JSON body
\* whose r is not false.
C15_WriterTotal ==
    (call.fn = "set_watching_status" /\ call.done) =>
        /\ call.ret \in {"True", "False"}
        /\ call.arg.resp \in {"transport_error", "http_error", "other_status",
                               "ok_not_json", "ok_r_false"} => call.ret = "False"
        /\ call.ret = "True" <=> call.arg.resp = "ok"

\* The home pages that leave the helper without the token of a session.
NoToken == {"no_set_cookie", "deleted", "other_cookie"}

\* Every form the run has posted was refused or its call raised.
WritebacksFailed(f) ==
    \A i \in 1..Len(f.log) :
        f.log[i].posts # << >> => f.log[i].out \in {"submit_failed", "exception"}

C17_NoMutualExclusion ==
    /\ [](\A r \in Runs : run[r].pc = "idle" => ENABLED Start(r))
    /\ [][\A r \in Runs :
            /\ (run[r].pc = "get_synced" /\ run'[r] # run[r]) =>
                   run'[r].synced = store.synced
            /\ (run[r].pc = "get_wait" /\ run'[r] # run[r]) =>
                   run'[r].wait_retry = store.wait
            /\ (run[r].pc = "save_synced" /\ run'[r] # run[r]) =>
                   /\ store'.synced = run[r].synced
                   /\ store'.wait = store.wait
            /\ (run[r].pc = "save_wait" /\ run'[r] # run[r]) =>
                   /\ store'.wait = run[r].wait_retry
                   /\ store'.synced = store.synced
         ]_vars

\* Both runs have persisted; one of them synced an item and wrote its
\* SyncRecord, another failed on an item and wrote its PendingRetry entry, and
\* the persisted dicts hold neither: the other run's later write dropped them.
C17_Witness ==
    /\ \A r \in Runs : Persisted(r)
    /\ \E a \in Runs :
           /\ Len(run[a].log) = 1
           /\ run[a].log[1].out = "synced"
           /\ Has(run[a].synced, KeyOf(run[a].items[1]))
           /\ ~Has(store.synced, KeyOf(run[a].items[1]))
    /\ \E a \in Runs :
           /\ Len(run[a].log) = 1
           /\ run[a].log[1].out = "submit_failed"
           /\ Has(run[a].wait_retry, KeyOf(run[a].items[1]))
           /\ ~Has(store.wait, KeyOf(run[a].items[1]))

\* C18: an item that has neither a tmdb id nor an imdb id is skipped: it
\* counts as one failure, no resolver and no writer call is made for it, and
\* the call leaves both dicts as they were, so no PendingRetry entry is made
\* for its key; so also when its key has a SyncRecord with the item's rating.
C18_NoIdsSkip ==
    /\ [](\A r \in Runs :
            Persisted(r) =>
                \A i \in 1..Len(run[r].log) :
                    LET item == run[r].items[i]
                    IN  ( /\ item.dict
                          /\ MovieOf(item).ids.tmdb = 0
                          /\ MovieOf(item).ids.imdb = "" ) =>
                            /\ run[r].log[i].out = "no_ids"
                            /\ Has(store.wait, KeyOf(item)) <=> run[r].log[i].pending)
    /\ [][\A r \in Runs :
            LET f == run[r]
                g == run'[r]
                n == Len(f.log)
                item == f.items[n + 1]
                did == g.log[n + 1]
            IN  ( /\ Processes(r)
                  /\ item.dict
                  /\ MovieOf(item).ids.tmdb = 0
                  /\ MovieOf(item).ids.imdb = "" )
                => /\ did.out = "no_ids"
                   /\ did.resolver = 0
                   /\ did.posts = << >>
                   /\ g.fail_count = f.fail_count + 1
                   /\ g.success_count = f.success_count
                   /\ g.synced = f.synced
                   /\ g.wait_retry = f.wait_retry
         ]_vars

\* A persisted run skipped the movie without catalogue ids while its key has a
\* SyncRecord with the same rating and no PendingRetry entry.
C18_Witness ==
    \E r \in Runs : \E i \in 1..Len(run[r].log) :
        LET item == run[r].items[i]
        IN  /\ Persisted(r)
            /\ run[r].log[i].out = "no_ids"
            /\ run[r].fail_count > 0
            /\ Has(store.synced, KeyOf(item))
            /\ store.synced[KeyOf(item)].trakt_rating = TraktRating(item)
            /\ ~Has(store.wait, KeyOf(item))

\* C19: when the resolver was dispatched, the wait for it did not fail and it
\* gave no target id, the item counts as one failure, the writer is not
\* called, both dicts stay as they were (no PendingRetry entry is made), and
\* the loop goes on with the next item of the list.
C19_EmptyResolution ==
    [][\A r \in Runs :
        LET f == run[r]
            g == run'[r]
            n == Len(f.log)
            did == g.log[n + 1]
        IN  (Processes(r) /\ did.out = "not_found") =>
                /\ did.resolver = 1
                /\ did.posts = << >>
                /\ g.fail_count = f.fail_count + 1
                /\ g.success_count = f.success_count
                /\ g.wait_retry = f.wait_retry
                /\ g.synced = f.synced
                /\ g.items = f.items
                /\ g.pc = IF n + 1 < Len(f.items) THEN "loop" ELSE "save_synced"
      ]_vars

\* The resolver found nothing for the first item, which has no PendingRetry
\* entry, and the second item was then synced.
C19_Witness ==
    \E r \in Runs :
        /\ Len(run[r].log) = 2
        /\ run[r].log[1].out = "not_found"
        /\ ~run[r].log[1].pending
        /\ ~Has(run[r].wait_retry, KeyOf(run[r].items[1]))
        /\ run[r].log[2].out = "synced"
        /\ run[r].fail_count = 1
        /\ run[r].success_count = 1

\* C20: the first stage is attempted exactly when there is a tmdb id; the
\* second exactly when the first was not attempted, raised or gave no id, and
\* there is a title or an imdb id; the result is the id of the first attempted
\* stage that gave one, and there is no result exactly when no attempted stage
\* gave an id.  In particular a first stage that raises does not keep the
\* second from being attempted and from giving the result.
C20_TwoStageResolution ==
    (call.fn = "_get_douban_id_by_tmdb" /\ call.done) =>
        LET a == call.arg
            called == call.ret.called
            gave1 == 1 \in called /\ a.s1 \notin {"raise", ""}
            gave2 == 2 \in called /\ a.s2 \notin {"raise", ""}
        IN  /\ 1 \in called <=> a.tmdb_id # 0
            /\ 2 \in called <=>
                   /\ 1 \notin called \/ a.s1 = "raise" \/ a.s1 = ""
                   /\ a.title # "" \/ a.imdb_id # ""
            /\ gave1 => call.ret.id = a.s1
            /\ (~gave1 /\ gave2) => call.ret.id = a.s2
            /\ call.ret.id = "" <=> (~gave1 /\ ~gave2)
            /\ (a.tmdb_id # 0 /\ a.s1 = "raise" /\ a.imdb_id # "") =>
                   /\ 2 \in called
                   /\ call.ret.id = (IF a.s2 = "raise" THEN "" ELSE a.s2)

\* The first stage raised, the second was attempted and gave the result.
C20_Witness ==
    /\ call.fn = "_get_douban_id_by_tmdb"
    /\ call.done
    /\ call.arg.tmdb_id # 0
    /\ call.arg.s1 = "raise"
    /\ call.ret.called = {1, 2}
    /\ call.ret.id = "777"

\* The items of the log that took one of the given paths.
Took(f, outs) == { i \in 1..Len(f.log) : f.log[i].out \in outs }

\* C21: a run that has persisted has counted every item of its truncated
\* list exactly once: success_count + fail_count is the number of items
\* processed, which is the length of the list; an item counts as a success
\* when it was already synced or was synced now, and as a failure on every
\* other path (no ids, resolution failed, nothing found, writer failure,
\* exception).  The same holds of the items processed so far at every moment
\* of the loop.
C21_CountsAddUp ==
    \A r \in Runs :
        LET f == run[r]
        IN  /\ f.pc \in {"loop", "save_synced", "save_wait", "done"} =>
                   /\ f.success_count + f.fail_count = Len(f.log)
                   /\ f.success_count = Cardinality(Took(f, {"already", "synced"}))
                   /\ f.fail_count =
                          Cardinality(Took(f, {"no_ids", "resolve_failed", "not_found",
                                               "submit_failed", "exception"}))
            /\ Persisted(r) =>
                   /\ Len(f.log) = Len(f.items)
                   /\ f.success_count + f.fail_count = Len(f.items)

\* A persisted run of two items: the first raised, the second was already
\* synced; one failure and one success are counted.
C21_Witness ==
    \E r \in Runs :
        /\ Persisted(r)
        /\ Len(run[r].items) = 2
        /\ run[r].log[1].out = "exception"
        /\ run[r].log[2].out = "already"
        /\ run[r].fail_count = 1
        /\ run[r].success_count = 1

\* What _sync_one does for the next item of run frame f in environment env,
\* when the PendingRetry dict it is handed is wait_retry.
NextCall(f, wait_retry, env) ==
    SyncOne(f.items[Len(f.log) + 1], f.ck, config.private, f.synced, wait_retry, env)

\* C22: for every item of a pass the resolver is dispatched at most once and
\* the writer is called at most once, and the writer is called only for an
\* item the resolver was dispatched for in this pass.  What a PendingRetry
\* entry holds is never used: for an item whose key has an entry, also one
\* with a preserved target id, _sync_one returns, dispatches, posts and writes
\* the SyncRecord dict exactly as it would without the entry.
C22_ResolveBeforeWrite ==
    \A r \in Runs :
        LET f == run[r]
        IN  /\ \A i \in 1..Len(f.log) :
                   /\ f.log[i].resolver \in {0, 1}
                   /\ Len(f.log[i].posts) <= 1
                   /\ f.log[i].posts # << >> => f.log[i].resolver = 1
            /\ (f.pc = "loop" /\ f.wait_retry # EmptyDict) =>
                   \A env \in EnvsFor(f.ck) :
                       LET with == NextCall(f, f.wait_retry, env)
                           without == NextCall(f, EmptyDict, env)
                       IN  /\ with.ret = without.ret
                           /\ with.synced = without.synced
                           /\ with.did.out = without.did.out
                           /\ with.did.resolver = without.did.resolver
                           /\ with.did.posts = without.did.posts

\* The key of an item had a PendingRetry entry with a preserved target id;
\* the resolver was dispatched again before the one POST, which was refused,
\* and the entry is still there.
C22_Witness ==
    \E r \in Runs : \E i \in 1..Len(run[r].log) :
        LET key == KeyOf(run[r].items[i])
        IN  /\ run[r].log[i].pending
            /\ run[r].log[i].out = "submit_failed"
            /\ run[r].log[i].resolver = 1
            /\ Len(run[r].log[i].posts) = 1
            /\ Has(run[r].wait_retry, key)
            /\ "subject_id" \in DOMAIN run[r].wait_retry[key]

\* The keys of the items of the run's truncated list.
ListedKeys(f) == { KeyOf(f.items[i]) : i \in { j \in 1..Len(f.items) : f.items[j].dict } }

\* The keys of the items the run has synced in this pass.
SyncedKeys(f) ==
    { KeyOf(f.items[i]) : i \in { j \in 1..Len(f.log) : f.log[j].out = "synced" } }

\* C23: with runs one after the other, no step takes a key out of the
\* persisted SyncRecord dict or out of a run's copy of it, and every
\* SyncRecord has a target id that is not empty; a key leaves the persisted
\* PendingRetry dict, or a run's copy of it, only when that run has synced an
\* item of its list with this key; the PendingRetry entry of a key that is
\* not in the run's truncated list is persisted again as it was.
C23_MapsMonotone ==
    /\ [](\A k \in DOMAIN store.synced : store.synced[k].douban_id # "")
    /\ [](\A r \in Runs : \A k \in DOMAIN run[r].synced :
             run[r].synced[k].douban_id # "")
    /\ [][ /\ DOMAIN store.synced \subseteq DOMAIN store'.synced
           /\ \A k \in DOMAIN store.wait \ DOMAIN store'.wait :
                  \E r \in Runs :
                      /\ run[r].pc = "save_wait"
                      /\ k \in SyncedKeys(run[r])
           /\ \A r \in Runs :
                  /\ Processes(r) =>
                         /\ DOMAIN run[r].synced \subseteq DOMAIN run'[r].synced
                         /\ DOMAIN run[r].wait_retry \ DOMAIN run'[r].wait_retry
                                \subseteq SyncedKeys(run'[r]) \ SyncedKeys(run[r])
                  /\ run[r].pc \in {"save_synced", "save_wait"} =>
                         \A k \in DOMAIN store.wait \ ListedKeys(run[r]) :
                             Entry(store'.wait, k) = Entry(store.wait, k)
         ]_vars

\* A run whose list does not hold movie Y synced movie X, which had a
\* PendingRetry entry, and persisted: X's entry is gone, Y's is still there.
C23_Witness ==
    \E r \in Runs :
        /\ Persisted(r)
        /\ "Y_None" \notin ListedKeys(run[r])
        /\ Has(store.wait, "Y_None")
        /\ \E i \in 1..Len(run[r].log) :
               /\ run[r].log[i].out = "synced"
               /\ run[r].log[i].pending
               /\ ~Has(store.wait, KeyOf(run[r].items[i]))
               /\ Has(store.synced, KeyOf(run[r].items[i]))

\* C24: an item whose call of _sync_one ends in an exception that the loop
\* catches (an item that is no dict, or the writer raising after the resolver
\* gave a target id) leaves the run's SyncRecord dict and PendingRetry dict as
\* they were before the item; when the writer raised, a form was posted and
\* the key has a PendingRetry entry only if it had one before.
C24_ExceptionLeavesMaps ==
    [][\A r \in Runs :
        LET f == run[r]
            g == run'[r]
            n == Len(f.log)
            item == f.items[n + 1]
            did == g.log[n + 1]
        IN  (Processes(r) /\ did.out = "exception") =>
                /\ g.synced = f.synced
                /\ g.wait_retry = f.wait_retry
                /\ did.posts # << >> =>
                       /\ item.dict
                       /\ did.resolver = 1
                       /\ Has(g.wait_retry, KeyOf(item)) <=> did.pending
      ]_vars

\* The writer raised for an item the resolver had found; the key had no
\* PendingRetry entry and has none after the run has persisted.
C24_Witness ==
    \E r \in Runs : \E i \in 1..Len(run[r].log) :
        /\ Persisted(r)
        /\ run[r].log[i].out = "exception"
        /\ run[r].log[i].resolver = 1
        /\ Len(run[r].log[i].posts) = 1
        /\ ~run[r].log[i].pending
        /\ ~Has(store.wait, KeyOf(run[r].items[i]))

====
